---- MODULE Spec2Model ----
(***************************************************************************)
(* Model of pystubber (src/pystubber/stubber.py): the member classifier    *)
(* and the StubDoc renderers docmodule, docclass, docroutine, docother.    *)
(*                                                                         *)
(* Text is modelled as a sequence of one-character strings, so that        *)
(* concatenation, str.replace, re.sub, slicing and substring tests are     *)
(* computed as the code computes them.  StubDoc extends pydoc's            *)
(* _PlainTextDoc, whose bold() returns its argument unchanged.             *)
(***************************************************************************)
EXTENDS Integers, Sequences, FiniteSets, TLC

VARIABLES pc, object, args, result, mro, attrs, contents, needone,
          classes, funcs, data

vars == <<pc, object, args, result, mro, attrs, contents, needone,
          classes, funcs, data>>

\* Python's None, and the value of a variable an operation does not use: a
\* one-element sequence that no text equals (a text holds single characters).
NoneVal == <<"None">>

(***************************************************************************)
(* Text helpers: Python str operations on sequences of characters.         *)
(***************************************************************************)
\* s.startswith(p)
StartsWith(s, p) == Len(s) >= Len(p) /\ SubSeq(s, 1, Len(p)) = p

\* s.endswith(p)
EndsWith(s, p) == Len(s) >= Len(p) /\ SubSeq(s, Len(s) - Len(p) + 1, Len(s)) = p

\* s[n:]
Drop(s, n) == SubSeq(s, n + 1, Len(s))

\* s.replace(old, new) and re.sub of a literal pattern: every non-overlapping
\* occurrence, leftmost first.
RECURSIVE Replace(_, _, _)
Replace(s, old, new) ==
    IF s = <<>> THEN <<>>
    ELSE IF StartsWith(s, old) THEN new \o Replace(Drop(s, Len(old)), old, new)
    ELSE <<Head(s)>> \o Replace(Tail(s), old, new)

\* s.rstrip()
RECURSIVE RStrip(_)
RStrip(s) ==
    IF s # <<>> /\ s[Len(s)] \in {" ", "\n", "\t"} THEN RStrip(SubSeq(s, 1, Len(s) - 1))
    ELSE s

\* s.split('\n'): the list of lines
RECURSIVE SplitLines(_)
SplitLines(s) ==
    IF \A i \in 1..Len(s) : s[i] # "\n" THEN <<s>>
    ELSE LET i == CHOOSE k \in 1..Len(s) : s[k] = "\n" /\ \A j \in 1..(k - 1) : s[j] # "\n"
         IN  <<SubSeq(s, 1, i - 1)>> \o SplitLines(Drop(s, i))

\* '\n'.join(lines)
RECURSIVE JoinLines(_)
JoinLines(lines) ==
    IF lines = <<>> THEN <<>>
    ELSE IF Len(lines) = 1 THEN lines[1]
    ELSE lines[1] \o <<"\n">> \o JoinLines(Tail(lines))

\* pydoc.TextDoc.indent(text, prefix): prefix every line, rstrip the last one.
indent(text, prefix) ==
    IF text = <<>> THEN <<>>
    ELSE LET lines == [i \in 1..Len(SplitLines(text)) |-> prefix \o SplitLines(text)[i]]
             n == Len(lines)
         IN  JoinLines([i \in 1..n |-> IF i = n THEN RStrip(lines[i]) ELSE lines[i]])

\* the default prefix of indent
DefaultPrefix == <<" "," "," "," ">>

(***************************************************************************)
(* Bounded value representation: StubRepr over pydoc.TextRepr.             *)
(***************************************************************************)
\* StubRepr.__init__: self.maxstring = self.maxother = 1000
maxstring == 1000

maxother == 1000

\* pydoc.cram(text, maxlen)
cram(text, maxlen) ==
    IF Len(text) > maxlen
    THEN LET pre == IF (maxlen - 3) \div 2 > 0 THEN (maxlen - 3) \div 2 ELSE 0
             post == IF maxlen - 3 - pre > 0 THEN maxlen - 3 - pre ELSE 0
         IN  SubSeq(text, 1, pre) \o <<".",".",".">> \o SubSeq(text, Len(text) - post + 1, Len(text))
    ELSE text

\* StubDoc.repr: TextRepr.repr1 dispatches on the type of the value.  A str
\* (here without quotes or backslashes) goes through repr_string; None has no
\* repr_ method and goes through cram(stripid(repr(x)), maxother).
Repr(value) ==
    IF value = NoneVal THEN cram(<<"N","o","n","e">>, maxother)
    ELSE <<"'">> \o cram(value, maxstring) \o <<"'">>

\* str(doc): the text of a string is itself, the text of None is 'None'.
Str(doc) == IF doc = NoneVal THEN <<"N","o","n","e">> ELSE doc

(***************************************************************************)
(* StubDoc.docother                                                        *)
(***************************************************************************)
\* The line assigned under `if maxlen:` is overwritten by the next statement,
\* which computes the same text, so maxlen has no effect on the result.
docother(value, name, maxlen, doc) ==
    LET repr == Repr(value)
        line == (IF name # NoneVal /\ name # <<>> THEN name \o <<" ","="," ">> ELSE <<>>) \o repr
    IN  IF Str(doc) # <<>> THEN line \o <<"\n">> \o indent(Str(doc), <<"#"," ">>) ELSE line

(***************************************************************************)
(* StubDoc.docroutine                                                      *)
(***************************************************************************)
\* c.__module__ of the classes of the model, which are named by their
\* __name__: K lives in the module m being documented, the root type in
\* builtins, every other class in n.
ModuleOf(c) ==
    IF c = <<"K">> THEN <<"m">>
    ELSE IF c = <<"o","b","j","e","c","t">> THEN <<"b","u","i","l","t","i","n","s">>
    ELSE <<"n">>

\* pydoc.classname(object, modname)
classname(c, modname) ==
    IF ModuleOf(c) # modname THEN ModuleOf(c) \o <<".">> \o c ELSE c

\* pydoc._is_bound_method(object): the routine has a __self__ that is
\* neither None nor a module.
is_bound_method(o) == o.self # NoneVal

\* The exceptions of inspect.signature that docroutine catches.
SignatureErrors == {<<"ValueError">>, <<"TypeError">>}

\* lines 224-236: the bound-method note
Note(o, cl, mod) ==
    IF is_bound_method(o)
    THEN LET imclass == o.self
         IN  IF cl # NoneVal
             THEN IF imclass # cl THEN <<" ","f","r","o","m"," ">> \o classname(imclass, mod) ELSE <<>>
             ELSE IF o.self # NoneVal
                  THEN <<" ","m","e","t","h","o","d"," ","o","f"," ">> \o classname(o.self, mod) \o <<" ","i","n","s","t","a","n","c","e">>
                  ELSE <<" ","u","n","b","o","u","n","d"," ">> \o classname(imclass, mod) \o <<" ","m","e","t","h","o","d">>
    ELSE <<>>

\* lines 222-223: name = name or realname
DisplayName(o, name) == IF name # NoneVal /\ name # <<>> THEN name ELSE o.realname

\* lines 238-244 and 256-257: the title
Title(o, name, signature) ==
    LET n == DisplayName(o, name)
    IN  IF o.isroutine /\ signature \notin SignatureErrors /\ o.realname = <<"<","l","a","m","b","d","a",">">>
        THEN n \o <<" ","l","a","m","b","d","a"," ">>
        ELSE IF n = o.realname THEN o.realname
        ELSE n \o <<" ","="," ">> \o o.realname

\* lines 241-243: the routine is the class's own entry under its real name
SkipDocs(o, name, cl) ==
    DisplayName(o, name) # o.realname /\ cl # NoneVal /\ o.inClDict

\* lines 245-261: the argspec, None when no signature was obtained
Argspec(o, signature) ==
    IF o.isroutine /\ signature \notin SignatureErrors
    THEN LET a1 == Replace(signature, <<","," ","/",")">>, <<")">>)
             a2 == Replace(a1, <<","," ","/">>, <<>>)
         IN  IF o.realname = <<"<","l","a","m","b","d","a",">">> THEN SubSeq(a2, 2, Len(a2) - 1) ELSE a2
    ELSE NoneVal

\* Decl leaving the unknown-args mark out when a note follows.
DeclMarkLost(title, argspec, note) ==
    LET dummyargs == (argspec = NoneVal \/ argspec = <<>>)
        spec == IF dummyargs THEN <<"(","*","a","r","g","s",","," ","*","*","k","w","a","r","g","s",")">> ELSE argspec
        d1 == <<"d","e","f"," ">> \o title \o spec \o <<":">>
        d2 == IF dummyargs /\ note = <<>> THEN d1 \o <<" "," ","#"," ","u","n","k","n","o","w","n"," ","a","r","g","s"," ","#">> ELSE d1
        d3 == IF note # <<>> THEN d2 \o <<" "," ","#"," ">> \o note ELSE d2
    IN  Replace(d3, <<"#"," "," ","#">>, <<"#">>)

\* lines 262-272: the declaration line
Decl(title, argspec, note) ==
    LET dummyargs == (argspec = NoneVal \/ argspec = <<>>)
        spec == IF dummyargs THEN <<"(","*","a","r","g","s",","," ","*","*","k","w","a","r","g","s",")">> ELSE argspec
        d1 == <<"d","e","f"," ">> \o title \o spec \o <<":">>
        d2 == IF dummyargs THEN d1 \o <<" "," ","#"," ","u","n","k","n","o","w","n"," ","a","r","g","s"," ","#">> ELSE d1
        d3 == IF note # <<>> THEN d2 \o <<" "," ","#"," ">> \o note ELSE d2
    IN  Replace(d3, <<"#"," "," ","#">>, <<"#">>)

impl == <<"r","a","i","s","e"," ","N","o","t","I","m","p","l","e","m","e","n","t","e","d","E","r","r","o","r","(",")">>

\* lines 274-281: the text returned
docroutine(o, name, mod, cl, signature) ==
    LET decl == Decl(Title(o, name, signature), Argspec(o, signature), Note(o, cl, mod))
        doc == IF o.doc = NoneVal \/ o.doc = <<>> THEN <<>>
               ELSE <<"\"","\"","\"","\n">> \o o.doc \o <<"\n","\"","\"","\"">>
    IN  IF SkipDocs(o, name, cl)
        THEN decl \o <<"\n">> \o indent(impl, DefaultPrefix) \o <<"\n">>
        ELSE decl \o <<"\n">>
             \o RStrip(indent((IF doc # <<>> THEN doc \o <<"\n">> ELSE <<>>) \o impl, DefaultPrefix))
             \o <<"\n">>

(***************************************************************************)
(* Specification Spec: one call of docroutine or of docother, on inputs    *)
(* drawn from small sets.                                                  *)
(***************************************************************************)
\* str(inspect.signature(object)) for the routines of the model
Signatures == { <<"(",")">>, <<"(","a",","," ","b",")">>, <<"(","a",","," ","/",")">>, <<"(","a",","," ","/",","," ","b",")">>, <<"(","s","e","l","f",","," ","/",","," ","*","a","r","g","s",")">> }

Routines ==
    [realname : { <<"f">>, <<"<","l","a","m","b","d","a",">">> },
     isroutine : BOOLEAN,
     self : {NoneVal, <<"K">>, <<"L">>},
     doc : {NoneVal, <<"d">>},
     inClDict : BOOLEAN]

RoutineArgs ==
    [name : {NoneVal, <<"f">>, <<"g">>},
     mod : {NoneVal, <<"m">>},
     cl : {NoneVal, <<"K">>},
     signature : SignatureErrors \cup Signatures]

\* The values given to docother: None and two strings.  maxlen is 0 for the
\* default None (both are false at `if maxlen:`).
Values == {NoneVal, <<>>, <<"a">>}

OtherArgs ==
    [name : {NoneVal, <<"x">>},
     maxlen : {0, 70},
     doc : {NoneVal, <<>>, <<"d">>, <<"d","\n","e"," ">>}]

Init ==
    /\ \/ pc = "docroutine" /\ object \in Routines /\ args \in RoutineArgs
       \/ pc = "docother" /\ object \in Values /\ args \in OtherArgs
    /\ result = NoneVal
    /\ mro = NoneVal /\ attrs = NoneVal /\ contents = NoneVal /\ needone = NoneVal
    /\ classes = NoneVal /\ funcs = NoneVal /\ data = NoneVal

DocRoutine ==
    /\ pc = "docroutine"
    /\ result' = docroutine(object, args.name, args.mod, args.cl, args.signature)
    /\ pc' = "docroutine_done"
    /\ UNCHANGED <<object, args, mro, attrs, contents, needone, classes, funcs, data>>

DocOther ==
    /\ pc = "docother"
    /\ result' = docother(object, args.name, args.maxlen, args.doc)
    /\ pc' = "docother_done"
    /\ UNCHANGED <<object, args, mro, attrs, contents, needone, classes, funcs, data>>

Next == DocRoutine \/ DocOther

Spec == Init /\ [][Next]_vars

(***************************************************************************)
(* The member classifier and StubDoc.docmodule.                            *)
(*                                                                         *)
(* A module is a function from the names it has to a member, a record      *)
(* [kind, origin]: kind says which of inspect.isclass, inspect.isroutine,  *)
(* pydoc.isdata holds of the value ("module" for a submodule, of which     *)
(* none holds); origin says what inspect.getmodule gives for it ("own":    *)
(* the module itself or None, "foreign": another module) or that           *)
(* inspect.isbuiltin holds ("builtin").  The export list is               *)
(* [given, names]: given is `all_ is not None`.                           *)
(***************************************************************************)
\* Code points of the characters that names of the model are made of: the
\* order of Python's string comparison, by which inspect.getmembers sorts.
Alphabet == <<"K","L","_","a","b","c","d","e","f","i","l","m","n","o","p","r","s","t","u","v","x","z">>

Ord(c) == CHOOSE i \in 1..Len(Alphabet) : Alphabet[i] = c

\* a < b for str
RECURSIVE Less(_, _)
Less(a, b) ==
    IF b = <<>> THEN FALSE
    ELSE IF a = <<>> THEN TRUE
    ELSE IF a[1] # b[1] THEN Ord(a[1]) < Ord(b[1])
    ELSE Less(Tail(a), Tail(b))

\* sorted(names)
RECURSIVE Sorted(_)
Sorted(names) ==
    IF names = {} THEN <<>>
    ELSE LET first == CHOOSE n \in names : \A m \in names \ {n} : Less(n, m)
         IN  <<first>> \o Sorted(names \ {first})

\* [x for x in s if predicate]
RECURSIVE Filter(_, _)
Filter(s, keep) ==
    IF s = <<>> THEN <<>>
    ELSE (IF Head(s) \in keep THEN <<Head(s)>> ELSE <<>>) \o Filter(Tail(s), keep)

\* hasattr(object, name)
hasattr(o, name) == name \in DOMAIN o.members

\* The names pydoc.visiblename never shows.
HiddenNames ==
    { <<"_","_","a","u","t","h","o","r","_","_">>, <<"_","_","b","u","i","l","t","i","n","s","_","_">>, <<"_","_","c","a","c","h","e","d","_","_">>, <<"_","_","c","r","e","d","i","t","s","_","_">>,
      <<"_","_","d","a","t","e","_","_">>, <<"_","_","d","o","c","_","_">>, <<"_","_","f","i","l","e","_","_">>, <<"_","_","s","p","e","c","_","_">>,
      <<"_","_","l","o","a","d","e","r","_","_">>, <<"_","_","m","o","d","u","l","e","_","_">>, <<"_","_","n","a","m","e","_","_">>, <<"_","_","p","a","c","k","a","g","e","_","_">>,
      <<"_","_","p","a","t","h","_","_">>, <<"_","_","q","u","a","l","n","a","m","e","_","_">>, <<"_","_","s","l","o","t","s","_","_">>, <<"_","_","v","e","r","s","i","o","n","_","_">> }

\* pydoc.visiblename(name, all, obj), for names that are not __future__
\* feature names.
visiblename(name, all, obj) ==
    IF name \in HiddenNames THEN FALSE
    ELSE IF StartsWith(name, <<"_","_">>) /\ EndsWith(name, <<"_","_">>) THEN TRUE
    ELSE IF StartsWith(name, <<"_">>) /\ hasattr(obj, <<"_","f","i","e","l","d","s">>) THEN TRUE
    ELSE IF all.given THEN name \in all.names
    ELSE ~StartsWith(name, <<"_">>)

\* inspect.getmembers(object, predicate): the names whose value is of `kind`,
\* sorted by name.
getmembers(o, kind) ==
    Sorted({n \in DOMAIN o.members : o.members[n].kind = kind})

\* _get_classes
get_classes(o, all) ==
    Filter(getmembers(o, "class"),
           {n \in DOMAIN o.members :
               /\ all.given \/ o.members[n].origin = "own"
               /\ visiblename(n, all, o)})

\* _get_funcs
get_funcs(o, all) ==
    Filter(getmembers(o, "routine"),
           {n \in DOMAIN o.members :
               /\ all.given \/ o.members[n].origin \in {"builtin", "own"}
               /\ visiblename(n, all, o)})

\* _get_data without the visiblename test.
get_data_unfiltered(o, all) == getmembers(o, "data")

\* _get_data
get_data(o, all) ==
    Filter(getmembers(o, "data"), {n \in DOMAIN o.members : visiblename(n, all, o)})

\* docmodule, line 68
SPECIAL_DATA == << <<"_","_","v","e","r","s","i","o","n","_","_">>, <<"_","_","d","a","t","e","_","_">>, <<"_","_","a","u","t","h","o","r","_","_">>, <<"_","_","c","r","e","d","i","t","s","_","_">> >>

\* docmodule, lines 69-71: each special name the module has is inserted at
\* the front of the data list, so the later ones come first.
RECURSIVE InsertSpecial(_, _, _)
InsertSpecial(o, specials, d) ==
    IF specials = <<>> THEN d
    ELSE InsertSpecial(o, Tail(specials),
                       IF hasattr(o, Head(specials)) THEN <<Head(specials)>> \o d ELSE d)

\* docmodule, lines 73-90: the sections, in the order DATA, CLASSES,
\* FUNCTIONS, each left out when it has no entry.  An entry is kept as the
\* name it is rendered under (docother or document is called with that key).
Sections(d, c, f) ==
    (IF d # <<>> THEN << [title |-> <<"\n","#","#"," ","D","A","T","A"," ","#","#","\n">>, entries |-> d] >> ELSE <<>>)
    \o (IF c # <<>> THEN << [title |-> <<"\n","#","#"," ","C","L","A","S","S","E","S"," ","#","#","\n">>, entries |-> c] >> ELSE <<>>)
    \o (IF f # <<>> THEN << [title |-> <<"\n","#","#"," ","F","U","N","C","T","I","O","N","S"," ","#","#","\n">>, entries |-> f] >> ELSE <<>>)

\* docmodule, line 57: all_ = getattr(object, '__all__', None)
all_(o) ==
    IF hasattr(o, <<"_","_","a","l","l","_","_">>) THEN [given |-> TRUE, names |-> o.exported]
    ELSE [given |-> FALSE, names |-> {}]

\* docmodule, lines 56-60: the docstring block
DocstringBlock(o) ==
    IF o.doc = NoneVal \/ o.doc = <<>> THEN <<>>
    ELSE <<"\"","\"","\"","\n">> \o o.doc \o <<"\n","\"","\"","\"","\n","\n">>

(***************************************************************************)
(* Specification SpecModule: docmodule on a module drawn from the modules  *)
(* over a small set of names.                                              *)
(***************************************************************************)
\* The largest export list of the model.
MaxAll == 2

Absent == [kind |-> "absent", origin |-> "own"]

Member(kind, origin) == [kind |-> kind, origin |-> origin]

\* The names an export list of the model can hold; zz is a name the module
\* does not have.
AllCandidates == { <<"K">>, <<"f">>, <<"_","p">>, <<"_","_","d","o","c","_","_">>, <<"_","_","v","e","r","s","i","o","n","_","_">>, <<"z","z">> }

\* The module whose members are the given ones (the absent ones left out);
\* every module has a __doc__.
ModuleOfMembers(mK, mf, mp, mx, mv, mfields, hasAll, exported, doc) ==
    LET given == ( <<"K">> :> mK ) @@ ( <<"f">> :> mf ) @@ ( <<"_","p">> :> mp ) @@ ( <<"_","_","x","_","_">> :> mx )
                 @@ ( <<"_","_","v","e","r","s","i","o","n","_","_">> :> mv ) @@ ( <<"_","f","i","e","l","d","s">> :> mfields )
                 @@ ( <<"_","_","d","o","c","_","_">> :> Member("data", "own") )
                 @@ ( <<"_","_","a","l","l","_","_">> :> IF hasAll THEN Member("data", "own") ELSE Absent )
        present == {n \in DOMAIN given : given[n] # Absent}
    IN  [members |-> [n \in present |-> given[n]],
         exported |-> IF hasAll THEN exported ELSE {},
         doc |-> doc]

InitModule ==
    /\ pc = "docmodule"
    /\ \E mK \in {Absent, Member("class", "own"), Member("class", "foreign")},
          mf \in {Absent, Member("routine", "own"), Member("routine", "foreign"),
                  Member("routine", "builtin"), Member("data", "own"), Member("module", "own")},
          mp \in {Absent, Member("data", "own")},
          mx \in {Absent, Member("data", "own")},
          mv \in {Absent, Member("data", "own"), Member("routine", "own")},
          mfields \in {Absent, Member("data", "own")},
          hasAll \in BOOLEAN,
          exported \in {e \in SUBSET AllCandidates : Cardinality(e) <= MaxAll},
          doc \in {NoneVal, <<"d">>} :
        /\ hasAll \/ exported = {}
        /\ object = ModuleOfMembers(mK, mf, mp, mx, mv, mfields, hasAll, exported, doc)
    /\ args = NoneVal /\ result = NoneVal
    /\ classes = <<>> /\ funcs = <<>> /\ data = <<>>
    /\ mro = NoneVal /\ attrs = NoneVal /\ contents = NoneVal /\ needone = NoneVal

DocModule ==
    /\ pc = "docmodule"
    /\ classes' = get_classes(object, all_(object))
    /\ funcs' = get_funcs(object, all_(object))
    /\ data' = InsertSpecial(object, SPECIAL_DATA, get_data(object, all_(object)))
    /\ result' = [docstring |-> DocstringBlock(object),
                  sections |-> Sections(data', classes', funcs')]
    /\ pc' = "docmodule_done"
    /\ UNCHANGED <<object, args, mro, attrs, contents, needone>>

NextModule == DocModule

SpecModule == InitModule /\ [][NextModule]_vars

(***************************************************************************)
(* StubDoc.docclass.                                                       *)
(*                                                                         *)
(* A class is [mro, doc, members]: mro is inspect.getmro(object), whose    *)
(* first entry is the class itself; members maps each name of              *)
(* pydoc.classify_class_attrs(object) to [kind, cls], the kind tag and the *)
(* defining class the classifier gives it.  The classes of the model have  *)
(* no _fields attribute, so sort_attributes orders by name alone.          *)
(*                                                                         *)
(* What docclass pushes on `contents` is kept as a sequence of items       *)
(* [t, name, tag]: the docstring block ("doc"), the lines of the           *)
(* resolution-order listing ("mro_head", "mro", "blank"), a horizontal     *)
(* rule ("rule"), a group label ("label": name is the group, tag the       *)
(* `defined here` / `inherited from X` text) and the attribute entries:    *)
(* "document" (self.document of the value), "descriptor" (_docdescriptor:  *)
(* `name = None` and the documentation) and "other" (docother).            *)
(***************************************************************************)
\* builtins.object
RootType == <<"o","b","j","e","c","t">>

\* The kind tags of pydoc.classify_class_attrs: those of
\* inspect.classify_class_attrs, with 'data descriptor' for every data
\* descriptor and 'readonly property' for a property without a setter.
Kinds == {"method", "class method", "static method", "data descriptor",
          "readonly property", "data"}

\* What getattr(object, name) does: return, raise AttributeError, or raise
\* another exception (a descriptor or metaclass that fails).
Outcomes == {"ok", "AttributeError", "ValueError"}

Item(t, name, tag) == [t |-> t, name |-> name, tag |-> tag]

\* pydoc.classify_class_attrs(object): the (name, kind, cls) of the given
\* names, in their order
RECURSIVE AttrsNamed(_, _)
AttrsNamed(o, names) ==
    IF names = <<>> THEN <<>>
    ELSE << [name |-> Head(names), kind |-> o.members[Head(names)].kind,
             cls |-> o.members[Head(names)].cls] >> \o AttrsNamed(o, Tail(names))

\* VisibleAttrs without the visiblename filter of line 182.
VisibleAttrsUnfiltered(o) == AttrsNamed(o, Sorted(DOMAIN o.members))

\* lines 180-182: the classifier's attributes that pass visiblename, in the
\* classifier's order (that of dir(), sorted by name)
VisibleAttrs(o) ==
    AttrsNamed(o, Sorted({n \in DOMAIN o.members :
                             visiblename(n, [given |-> FALSE, names |-> {}], o)}))

\* pydoc._split_list(s, predicate), for the predicate t[2] is thisclass
RECURSIVE SplitByClass(_, _)
SplitByClass(s, thisclass) ==
    IF s = <<>> THEN [yes |-> <<>>, no |-> <<>>]
    ELSE LET rest == SplitByClass(Tail(s), thisclass)
         IN  IF Head(s).cls = thisclass
             THEN [yes |-> <<Head(s)>> \o rest.yes, no |-> rest.no]
             ELSE [yes |-> rest.yes, no |-> <<Head(s)>> \o rest.no]

\* pydoc._split_list(s, predicate), for the predicate t[1] == kind
RECURSIVE SplitByKind(_, _)
SplitByKind(s, kind) ==
    IF s = <<>> THEN [yes |-> <<>>, no |-> <<>>]
    ELSE LET rest == SplitByKind(Tail(s), kind)
         IN  IF Head(s).kind = kind
             THEN [yes |-> <<Head(s)>> \o rest.yes, no |-> rest.no]
             ELSE [yes |-> rest.yes, no |-> <<Head(s)>> \o rest.no]

\* pydoc.sort_attributes(attrs, object) for a class without _fields: by name
RECURSIVE sort_attributes(_)
sort_attributes(s) ==
    IF s = <<>> THEN <<>>
    ELSE LET i == CHOOSE k \in 1..Len(s) : \A j \in 1..Len(s) : j = k \/ Less(s[k].name, s[j].name)
         IN  <<s[i]>> \o sort_attributes(SubSeq(s, 1, i - 1) \o SubSeq(s, i + 1, Len(s)))

\* docclass.spill, lines 142-150: the entries of one group of routines.  A
\* failing getattr, whatever it raises, gives the _docdescriptor entry.
RECURSIVE SpillEntries(_, _)
SpillEntries(ok, out) ==
    IF ok = <<>> THEN [pushed |-> <<>>, exc |-> ""]
    ELSE LET rest == SpillEntries(Tail(ok), out)
             entry == IF out[Head(ok).name] = "ok"
                      THEN Item("document", Head(ok).name, <<>>)
                      ELSE Item("descriptor", Head(ok).name, <<>>)
         IN  [pushed |-> <<entry>> \o rest.pushed, exc |-> rest.exc]

\* docclass.spilldescriptors, lines 158-159: no getattr at all
RECURSIVE SpillDescriptorEntries(_, _)
SpillDescriptorEntries(ok, out) ==
    IF ok = <<>> THEN [pushed |-> <<>>, exc |-> ""]
    ELSE LET rest == SpillDescriptorEntries(Tail(ok), out)
         IN  [pushed |-> <<Item("descriptor", Head(ok).name, <<>>)>> \o rest.pushed, exc |-> ""]

\* docclass.spilldata, lines 167-177: only AttributeError is caught, and the
\* value is then taken from the defining class's __dict__; any other
\* exception leaves the loop (and docclass) with the entries pushed so far.
RECURSIVE SpillDataEntries(_, _)
SpillDataEntries(ok, out) ==
    IF ok = <<>> THEN [pushed |-> <<>>, exc |-> ""]
    ELSE IF out[Head(ok).name] \notin {"ok", "AttributeError"}
         THEN [pushed |-> <<>>, exc |-> out[Head(ok).name]]
    ELSE LET rest == SpillDataEntries(Tail(ok), out)
             entry == Item("other", Head(ok).name,
                           IF out[Head(ok).name] = "ok" THEN <<"g","e","t","a","t","t","r">> ELSE <<"_","_","d","i","c","t","_","_">>)
         IN  [pushed |-> <<entry>> \o rest.pushed, exc |-> rest.exc]

\* Maybe pushing a rule whether or not one is needed.
MaybeAlways(need) == << Item("rule", <<>>, <<>>) >>

\* HorizontalRule.maybe, lines 131-134: what it pushes; it leaves needone set.
Maybe(need) == IF need THEN << Item("rule", <<>>, <<>>) >> ELSE <<>>

\* One call of spill / spilldescriptors / spilldata (lines 137-178) on the
\* state acc = [contents, needone, attrs, exc] of the walk: the attributes of
\* `kind` are split off; if there are any, hr.maybe(), the label and the
\* entries are pushed.  Nothing runs once an exception has been raised.
SpillGroup(acc, msg, tag, kind, out) ==
    LET split == SplitByKind(acc.attrs, kind)
        entries == IF kind = "data" THEN SpillDataEntries(split.yes, out)
                   ELSE IF kind = "data descriptor" THEN SpillDescriptorEntries(split.yes, out)
                   ELSE SpillEntries(split.yes, out)
    IN  IF acc.exc # "" THEN acc
        ELSE IF split.yes = <<>> THEN [acc EXCEPT !.attrs = split.no]
        ELSE [contents |-> acc.contents \o Maybe(acc.needone)
                           \o << Item("label", msg, tag) >> \o entries.pushed,
              needone |-> TRUE,
              attrs |-> split.no,
              exc |-> entries.exc]

\* lines 194-198: the tag of the groups of thisclass
Tag(o, thisclass) ==
    IF thisclass = o.mro[1] THEN <<"d","e","f","i","n","e","d"," ","h","e","r","e">>
    ELSE <<"i","n","h","e","r","i","t","e","d"," ","f","r","o","m"," ">> \o classname(thisclass, ModuleOf(o.mro[1]))

\* line 214: assert attrs == []
AssertEmpty(acc) ==
    IF acc.exc = "" /\ acc.attrs # <<>> THEN [acc EXCEPT !.exc = "AssertionError"] ELSE acc

\* lines 200-214: one iteration of the walk for a class that is not the root
\* type: sort, the five spills in order, and the assertion.  Each step is
\* written as the one-element set of its result, so that it is computed once.
SpillAll(o, c, need, mine, thisclass, out) ==
    LET tag == Tag(o, thisclass)
        s0 == {[contents |-> c, needone |-> need, attrs |-> sort_attributes(mine), exc |-> ""]}
        s1 == {SpillGroup(a, <<"M","e","t","h","o","d","s">>, tag, "method", out) : a \in s0}
        s2 == {SpillGroup(a, <<"C","l","a","s","s"," ","m","e","t","h","o","d","s">>, tag, "class method", out) : a \in s1}
        s3 == {SpillGroup(a, <<"S","t","a","t","i","c"," ","m","e","t","h","o","d","s">>, tag, "static method", out) : a \in s2}
        s4 == {SpillGroup(a, <<"D","a","t","a"," ","d","e","s","c","r","i","p","t","o","r","s">>, tag, "data descriptor", out) : a \in s3}
        s5 == {SpillGroup(a, <<"D","a","t","a"," ","a","n","d"," ","o","t","h","e","r"," ","a","t","t","r","i","b","u","t","e","s">>, tag, "data", out) : a \in s4}
    IN  CHOOSE r \in {AssertEmpty(a) : a \in s5} : TRUE

\* ThisClass falling back to the root type, not to the defining class of the
\* first remaining attribute, once the resolution order is exhausted.
ThisClassRootFallback(m, a) == IF m # <<>> THEN Head(m) ELSE RootType

\* lines 185-188: the class of this iteration
ThisClass(m, a) == IF m # <<>> THEN Head(m) ELSE a[1].cls

\* lines 96-110: the declaration line
ClassTitle(o, name) ==
    LET realname == o.mro[1]
        n == IF name # NoneVal /\ name # <<>> THEN name ELSE realname
        t == IF n = realname THEN <<"c","l","a","s","s"," ">> \o realname ELSE n \o <<" ","="," ","c","l","a","s","s"," ">> \o realname
        bases == IF Len(o.mro) > 1 THEN <<"(">> \o classname(o.mro[2], ModuleOf(realname)) \o <<")">>
                 ELSE <<>>
    IN  t \o bases \o <<":">>

\* lines 112-125: the docstring block and the resolution-order listing
Preamble(o) ==
    (IF o.doc = NoneVal \/ o.doc = <<>> THEN <<>> ELSE << Item("doc", o.doc, <<>>) >>)
    \o (IF Len(o.mro) > 2
        THEN << Item("mro_head", <<>>, <<>>) >>
             \o [i \in 1..Len(o.mro) |-> Item("mro", classname(o.mro[i], ModuleOf(o.mro[1])), <<>>)]
             \o << Item("blank", <<>>, <<>>) >>
        ELSE <<>>)

\* '\n'.join(contents) == '': nothing was pushed, or one empty string
JoinIsEmpty(c) == c = <<>> \/ (Len(c) = 1 /\ c[1].t = "blank")

\* line 217: contents = '\n'.join(contents) or 'pass'
Body(c) == IF JoinIsEmpty(c) THEN << Item("pass", <<>>, <<>>) >> ELSE c

(***************************************************************************)
(* Specification SpecClass: docclass on a class drawn from the classes     *)
(* with one of three resolution orders and a few attributes.               *)
(***************************************************************************)
\* The largest number of public attributes of a class of the model.
MaxAttrs == 2

\* The names of the public attributes.
AttrNames == << <<"_","_","i","n","i","t","_","_">>, <<"a">>, <<"b">>, <<"c">> >>

\* The resolution orders of the model: the root type itself, a class
\* deriving from it, and a class with one base in between.
Orders == { << RootType >>, << <<"K">>, RootType >>, << <<"K">>, <<"A">>, RootType >> }

\* A metaclass: a defining class that is in no resolution order.
Meta == <<"M","e","t","a">>

NoAttr == [kind |-> "absent", cls |-> <<>>]

\* The classes with resolution order m: each public name is absent or has a
\* kind and a defining class, which is a class of m or the metaclass.  Every
\* class has a __module__ attribute of its own, which visiblename hides.
ClassesOf(m) ==
    LET names == {AttrNames[i] : i \in 1..MaxAttrs}
        choices == {NoAttr} \cup [kind : Kinds, cls : {m[i] : i \in 1..Len(m)} \cup {Meta}]
    IN  { [mro |-> m,
           doc |-> d,
           members |-> [n \in {x \in names : f[x] # NoAttr} \cup { <<"_","_","m","o","d","u","l","e","_","_">> }
                         |-> IF n \in names THEN f[n] ELSE [kind |-> "data", cls |-> m[1]]]] :
          f \in [names -> choices], d \in {NoneVal, <<"d">>} }

InitClass ==
    /\ pc = "docclass"
    /\ \E m \in Orders : object \in ClassesOf(m)
    /\ args = [name |-> NoneVal]
    /\ result = NoneVal
    /\ mro = <<>> /\ attrs = <<>> /\ contents = <<>> /\ needone = FALSE
    /\ classes = NoneVal /\ funcs = NoneVal /\ data = NoneVal

\* lines 96-182: the title, the docstring, the resolution-order listing, the
\* rule object, and the visible attributes
DocClassStart ==
    /\ pc = "docclass"
    /\ contents' = Preamble(object)
    /\ mro' = object.mro
    /\ needone' = FALSE
    /\ attrs' = VisibleAttrs(object)
    /\ pc' = "walk"
    /\ UNCHANGED <<object, args, result, classes, funcs, data>>

\* lines 184-193: an iteration for the root type, whose attributes are dropped
WalkSkipRoot ==
    /\ pc = "walk" /\ attrs # <<>>
    /\ ThisClass(mro, attrs) = RootType
    /\ attrs' = SplitByClass(attrs, RootType).no
    /\ mro' = IF mro # <<>> THEN Tail(mro) ELSE mro
    /\ UNCHANGED <<pc, object, args, result, contents, needone, classes, funcs, data>>

\* lines 184-215: an iteration for any other class.  Each getattr of the
\* iteration returns or raises as `out` says.
WalkSpill ==
    /\ pc = "walk" /\ attrs # <<>>
    /\ ThisClass(mro, attrs) # RootType
    /\ LET thisclass == ThisClass(mro, attrs)
           split == SplitByClass(attrs, thisclass)
       IN  \E out \in [{split.yes[i].name : i \in 1..Len(split.yes)} -> Outcomes] :
              \E after \in {SpillAll(object, contents, needone, split.yes, thisclass, out)} :
                  /\ contents' = after.contents
                  /\ needone' = after.needone
                  /\ mro' = IF mro # <<>> THEN Tail(mro) ELSE mro
                  /\ IF after.exc = ""
                     THEN /\ attrs' = split.no
                          /\ UNCHANGED <<pc, result>>
                     ELSE /\ attrs' = after.attrs \o split.no
                          /\ pc' = "raised"
                          /\ result' = [raised |-> after.exc]
    /\ UNCHANGED <<object, args, classes, funcs, data>>

\* lines 217-218: the loop has ended and docclass returns
DocClassReturn ==
    /\ pc = "walk" /\ attrs = <<>>
    /\ result' = [title |-> ClassTitle(object, args.name), body |-> Body(contents)]
    /\ pc' = "docclass_done"
    /\ UNCHANGED <<object, args, mro, attrs, contents, needone, classes, funcs, data>>

NextClass == DocClassStart \/ WalkSkipRoot \/ WalkSpill \/ DocClassReturn

SpecClass == InitClass /\ [][NextClass]_vars

\* The walk is a sequential loop: a step that can be taken is taken.
FairSpecClass == SpecClass /\ WF_vars(NextClass)

(***************************************************************************)
(* Properties.                                                             *)
(***************************************************************************)
\* sub in s
Contains(s, sub) == \E i \in 1..(Len(s) - Len(sub) + 1) : SubSeq(s, i, i + Len(sub) - 1) = sub

\* name.startswith('__') and name.endswith('__')
IsDunder(n) == StartsWith(n, <<"_","_">>) /\ EndsWith(n, <<"_","_">>)

\* The names rendered by docmodule, over its sections.
RenderedNames ==
    UNION { {result.sections[i].entries[j] : j \in 1..Len(result.sections[i].entries)} :
            i \in 1..Len(result.sections) }

RECURSIVE CountEntries(_)
CountEntries(sections) ==
    IF sections = <<>> THEN 0 ELSE Len(Head(sections).entries) + CountEntries(Tail(sections))

\* The members of a module that are classes, routines or data.
Documentable(o) ==
    {n \in DOMAIN o.members : o.members[n].kind \in {"class", "routine", "data"}}

HasExportList == pc = "docmodule_done" /\ hasattr(object, <<"_","_","a","l","l","_","_">>)

\* C1, as stated: for a module with an export list, the rendered top-level
\* names are exactly the names of __all__ that are class, routine or data
\* members of the module.
C1_RenderedEqualsExportList ==
    HasExportList => RenderedNames = object.exported \cap Documentable(object)

\* C1, amended: for a module with an export list, the rendered names are the
\* class, routine and data members that are not among the names visiblename
\* always hides and that are listed in __all__, or are dunder names (such as
\* __all__ itself), or start with an underscore in a module that has a
\* _fields attribute; together with each of __version__, __date__,
\* __author__, __credits__ that the module has, listed or not.  Each name is
\* rendered once.
C1_RenderedNamesWithExportList ==
    HasExportList =>
        /\ RenderedNames =
              {n \in Documentable(object) :
                  /\ n \notin HiddenNames
                  /\ \/ n \in object.exported
                     \/ IsDunder(n)
                     \/ StartsWith(n, <<"_">>) /\ hasattr(object, <<"_","f","i","e","l","d","s">>)}
              \cup {n \in DOMAIN object.members :
                       \E i \in 1..Len(SPECIAL_DATA) : SPECIAL_DATA[i] = n}
        /\ CountEntries(result.sections) = Cardinality(RenderedNames)

\* C1, a case: f is exported and rendered, __version__ is rendered without
\* being exported, and the exported __doc__ is not rendered.
C1_Witness ==
    /\ HasExportList
    /\ object.exported = { <<"f">>, <<"_","_","d","o","c","_","_">> }
    /\ { <<"f">>, <<"_","_","v","e","r","s","i","o","n","_","_">>, <<"_","_","a","l","l","_","_">> } \subseteq RenderedNames
    /\ <<"_","_","d","o","c","_","_">> \notin RenderedNames

NoSignature == ~object.isroutine \/ args.signature \in SignatureErrors

\* The declaration line of a rendered routine: the first line of the text.
DeclLine == SplitLines(result)[1]

\* C4: a routine whose signature cannot be obtained (inspect.signature raises
\* ValueError or TypeError, or the object is not a routine) has a declaration
\* line that contains `(*args, **kwargs)` and `unknown args`, with or without
\* a bound-method note.
C4_UnknownArgsMarked ==
    pc = "docroutine_done" /\ NoSignature =>
        /\ Contains(DeclLine, <<"(","*","a","r","g","s",","," ","*","*","k","w","a","r","g","s",")">>)
        /\ Contains(DeclLine, <<"u","n","k","n","o","w","n"," ","a","r","g","s">>)

\* C4, a case: no signature, and a bound-method note is appended.
C4_Witness ==
    /\ pc = "docroutine_done"
    /\ args.signature = <<"ValueError">>
    /\ object.isroutine
    /\ Note(object, args.cl, args.mod) # <<>>
    /\ EndsWith(DeclLine, <<"i","n","s","t","a","n","c","e">>)

\* C5, as stated: docother called without documentation (doc left at None)
\* returns the single line `name = <bounded repr>`, with no comment after it.
C5_NoCommentWithoutDoc ==
    pc = "docother_done" /\ args.doc = NoneVal =>
        result = (IF args.name # NoneVal THEN args.name \o <<" ","="," ">> ELSE <<>>) \o Repr(object)

\* C6, as stated: when docclass rendered no attribute, the class body is the
\* single statement `pass`, also with a docstring or a resolution order of
\* more than two entries.
C6_PassWhenNoAttributes ==
    pc = "docclass_done" /\ (\A i \in 1..Len(contents) : contents[i].t \notin {"document", "descriptor", "other"})
        => result.body = << Item("pass", <<>>, <<>>) >>

\* C7, as stated: a lambda whose signature is obtainable renders as the name,
\* the keyword `lambda` and the parameter list without parentheses, not as a
\* `def` declaration and never with the synthesized `(*args, **kwargs)` and
\* unknown-args mark; this includes a lambda without parameters.
C7_LambdaDeclaration ==
    pc = "docroutine_done" /\ object.isroutine /\ object.realname = <<"<","l","a","m","b","d","a",">">>
                           /\ args.signature \notin SignatureErrors =>
        /\ ~StartsWith(DeclLine, <<"d","e","f"," ">>)
        /\ Contains(DeclLine, <<" ","l","a","m","b","d","a"," ">> \o SubSeq(args.signature, 2, Len(args.signature) - 1) \o <<":">>)
        /\ ~Contains(DeclLine, <<"(","*","a","r","g","s",","," ","*","*","k","w","a","r","g","s",")">>)
        /\ ~Contains(DeclLine, <<"u","n","k","n","o","w","n"," ","a","r","g","s">>)

\* The attribute entries among the items pushed by docclass.
EntryTypes == {"document", "descriptor", "other"}

IsEntry(it) == it.t \in EntryTypes

Entries == SelectSeq(contents, IsEntry)

EntryNames == {Entries[i].name : i \in 1..Len(Entries)}

\* The attributes of the class that pass the visibility predicate.
Visible(o) ==
    {n \in DOMAIN o.members : visiblename(n, [given |-> FALSE, names |-> {}], o)}

\* Those of them that the root type does not define.
VisibleNotRoot(o) == {n \in Visible(o) : o.members[n].cls # RootType}

NoDuplicateEntries ==
    \A i, j \in 1..Len(Entries) : Entries[i].name = Entries[j].name => i = j

\* C2, as stated: the number of attribute entries docclass renders equals the
\* number of attributes that pass the visibility predicate across the whole
\* resolution order, those defined by the root type included, and no name is
\* rendered twice.
C2_CountEqualsVisible ==
    pc = "docclass_done" =>
        /\ Len(Entries) = Cardinality(Visible(object))
        /\ NoDuplicateEntries

\* C2, amended: no attribute is rendered twice, every rendered attribute
\* passes the visibility predicate and is not defined by the root type
\* builtins.object, and when docclass returns the number of entries equals
\* the number of visible attributes whose defining class is not the root
\* type.
C2_CountEqualsVisibleNotRoot ==
    /\ pc \in {"walk", "raised", "docclass_done"} =>
          /\ NoDuplicateEntries
          /\ EntryNames \subseteq VisibleNotRoot(object)
    /\ pc = "docclass_done" =>
          /\ EntryNames = VisibleNotRoot(object)
          /\ Len(Entries) = Cardinality(VisibleNotRoot(object))

\* C2, a case: a visible attribute is defined by the root type and another
\* one, defined elsewhere, is rendered.
C2_Witness ==
    /\ pc = "docclass_done"
    /\ \E n \in Visible(object) : object.members[n].cls = RootType
    /\ Len(Entries) = 1

\* C3, as stated: a getattr that raises while docclass renders the
\* attributes, whatever it raises and whatever the kind of the attribute, is
\* caught for that attribute, which is rendered as the stub entry of
\* _docdescriptor; no such exception leaves docclass.
C3_AccessFailureStaysLocal ==
    /\ pc = "raised" => result.raised \notin Outcomes
    /\ pc \in {"walk", "raised", "docclass_done"} =>
          \A i \in 1..Len(contents) : contents[i].t = "other" => contents[i].tag = <<"g","e","t","a","t","t","r">>

\* The labels and the rules among the items pushed by docclass.
IsLabel(it) == it.t = "label"

IsRule(it) == it.t = "rule"

\* The order of the groups within one defining class.
GroupRank(msg) ==
    CASE msg = <<"M","e","t","h","o","d","s">> -> 1
      [] msg = <<"C","l","a","s","s"," ","m","e","t","h","o","d","s">> -> 2
      [] msg = <<"S","t","a","t","i","c"," ","m","e","t","h","o","d","s">> -> 3
      [] msg = <<"D","a","t","a"," ","d","e","s","c","r","i","p","t","o","r","s">> -> 4
      [] msg = <<"D","a","t","a"," ","a","n","d"," ","o","t","h","e","r"," ","a","t","t","r","i","b","u","t","e","s">> -> 5

GroupKind(msg) ==
    CASE msg = <<"M","e","t","h","o","d","s">> -> "method"
      [] msg = <<"C","l","a","s","s"," ","m","e","t","h","o","d","s">> -> "class method"
      [] msg = <<"S","t","a","t","i","c"," ","m","e","t","h","o","d","s">> -> "static method"
      [] msg = <<"D","a","t","a"," ","d","e","s","c","r","i","p","t","o","r","s">> -> "data descriptor"
      [] msg = <<"D","a","t","a"," ","a","n","d"," ","o","t","h","e","r"," ","a","t","t","r","i","b","u","t","e","s">> -> "data"

\* The defining classes in the order they are walked: the resolution order,
\* then the metaclass.
WalkOrder == object.mro \o << Meta >>

\* The tag a group of the i-th class of the walk is to carry.
ExpectedTag(i) ==
    IF i = 1 THEN <<"d","e","f","i","n","e","d"," ","h","e","r","e">>
    ELSE <<"i","n","h","e","r","i","t","e","d"," ","f","r","o","m"," ">> \o ModuleOf(WalkOrder[i]) \o <<".">> \o WalkOrder[i]

\* The place in the walk of the class a label's tag names.
ClassRank(tag) == CHOOSE i \in 1..Len(WalkOrder) : ExpectedTag(i) = tag

\* C8: over the walk of docclass, a rule line is pushed exactly between
\* consecutive non-empty groups: every rule is directly followed by a label
\* and comes after an earlier label, every label but the first is directly
\* preceded by a rule, so there is one rule less than there are labels (none
\* when there is no label); a label stands for a group that has an attribute;
\* the groups come in the order the classes are walked, the class itself
\* first and tagged `defined here`, the others `inherited from X`, and within
\* one class in the order methods, class methods, static methods, data
\* descriptors, data.
C8_RulesBetweenGroups ==
    pc \in {"walk", "raised", "docclass_done"} =>
        LET c == contents
            labels == SelectSeq(c, IsLabel)
            rules == SelectSeq(c, IsRule)
        IN  /\ \A i \in 1..Len(c) : IsRule(c[i]) =>
                  /\ i < Len(c) /\ IsLabel(c[i + 1])
                  /\ \E j \in 1..(i - 1) : IsLabel(c[j])
            /\ \A i \in 1..Len(c) : (IsLabel(c[i]) /\ \E j \in 1..(i - 1) : IsLabel(c[j])) =>
                  IsRule(c[i - 1])
            /\ Len(rules) = IF labels = <<>> THEN 0 ELSE Len(labels) - 1
            /\ \A i \in 1..Len(labels) :
                  /\ \E k \in 1..Len(WalkOrder) : ExpectedTag(k) = labels[i].tag
                  /\ WalkOrder[ClassRank(labels[i].tag)] # RootType
                  /\ \E n \in Visible(object) :
                        /\ object.members[n].kind = GroupKind(labels[i].name)
                        /\ object.members[n].cls = WalkOrder[ClassRank(labels[i].tag)]
            /\ \A i, j \in 1..Len(labels) : i < j =>
                  \/ ClassRank(labels[i].tag) < ClassRank(labels[j].tag)
                  \/ /\ ClassRank(labels[i].tag) = ClassRank(labels[j].tag)
                     /\ GroupRank(labels[i].name) < GroupRank(labels[j].name)

\* C8, a case: docclass returned after two non-empty groups of two defining
\* classes, with one rule between them.
C8_Witness ==
    /\ pc = "docclass_done"
    /\ Len(SelectSeq(contents, IsLabel)) = 2
    /\ Len(SelectSeq(contents, IsRule)) = 1
    /\ SelectSeq(contents, IsLabel)[1].tag # SelectSeq(contents, IsLabel)[2].tag

\* C9, as stated: the assertion `assert attrs == []` of the walk never fails,
\* whatever kind tag the attribute classifier gives an attribute.
C9_AssertionNeverFails ==
    ~(pc = "raised" /\ result.raised = "AssertionError")

\* The walk has ended: docclass returned or raised.
Finished == pc \in {"docclass_done", "raised"}

\* The visible attributes whose defining class is in no resolution order.
OffOrder(o) == {n \in Visible(o) : \A i \in 1..Len(o.mro) : o.mro[i] # o.members[n].cls}

\* C10: the walk of docclass ends; every iteration that stays in the loop
\* leaves fewer classes in the remaining resolution order plus remaining
\* attributes; an attribute whose defining class is in no resolution order is
\* rendered only once the order is exhausted, and is rendered when docclass
\* returns.
C10_WalkTerminates ==
    /\ <>Finished
    /\ [][pc = "walk" /\ pc' = "walk" => Len(mro') + Len(attrs') < Len(mro) + Len(attrs)]_vars
    /\ [](pc \in {"walk", "raised", "docclass_done"} /\ EntryNames \cap OffOrder(object) # {} => mro = <<>>)
    /\ [](pc = "docclass_done" => OffOrder(object) \subseteq EntryNames)

\* C10, a case: docclass returned after rendering an attribute that a
\* metaclass defines, together with one the class defines.
C10_Witness ==
    /\ pc = "docclass_done"
    /\ \E n \in EntryNames : object.members[n].cls = Meta
    /\ \E n \in EntryNames : object.members[n].cls = object.mro[1]
====
